---- MODULE Spec2Model ----
(***************************************************************************)
(* rwordle (src/src/main.rs): bit-packed words, the constraint mask, the   *)
(* parallel guess evaluation pass and the self-play loop.                  *)
(*                                                                         *)
(* A u32 is written as the set of the positions of its set bits (0..31):   *)
(* x | y is x \cup y, x & y is x \cap y, !x is Bits \ x, 1 << k is {k},    *)
(* x >> 1 moves every bit down by one and drops bit 0, x == 0 is x = {},   *)
(* x == 1 is x = {0}.  A text (&str) is the sequence of its characters'    *)
(* code points; as_bytes gives its UTF-8 bytes.                            *)
(***************************************************************************)
EXTENDS Integers, Sequences, FiniteSets, TLC

VARIABLES
    \* Word::new / Display round trip
    text, encoded, decoded, stage,
    \* a WordMask driven call by call
    before, last_call, calls,
    \* main: the vocabularies and one self-play attempt
    original_valid_answers, valid_guesses, actual_answer,
    valid_answers, current_mask, turns, phase,
    \* main: one evaluation pass (par_iter, one task per guess)
    best_total_remaining, best_guess, second_best_guess,
    best_guess_lock, second_best_guess_lock, pc, total_remaining,
    \* history of the pass: the tasks that wrote the best slot, in write order
    written

codecVars == <<text, encoded, decoded, stage>>
callVars == <<before, last_call, calls>>
vocabVars == <<original_valid_answers, valid_guesses, actual_answer>>
attemptVars == <<valid_answers, turns, phase>>
passVars == <<best_total_remaining, best_guess, second_best_guess,
              best_guess_lock, second_best_guess_lock, pc, total_remaining,
              written>>
vars == <<codecVars, callVars, vocabVars, attemptVars, current_mask, passVars>>

(***************************************************************************)
(* Bounds of the model.                                                    *)
(***************************************************************************)
MaxTextLen == 6
MaxCalls == 3
MaxAnswers == 3
MaxGuesses == 3
MaxTurns == 4

(***************************************************************************)
(* Program constants.                                                      *)
(***************************************************************************)
ASCII_ALPH_OFFSET == 97
WORD_LENGTH == 5
\* usize::MAX: above every score; written as the largest integer TLC holds.
USIZE_MAX == 2147483647

Bits == 0..31
ALL_ALLOWED == 0..25

Not(x) == Bits \ x
Shl1(k) == {k}
Shr1(x) == {b - 1 : b \in x \ {0}}

(***************************************************************************)
(* Texts.                                                                  *)
(***************************************************************************)
RECURSIVE as_bytes(_)
as_bytes(s) ==
    IF s = <<>> THEN <<>>
    ELSE LET c == Head(s)
         IN  (IF c < 128 THEN <<c>>
              ELSE <<192 + (c \div 64), 128 + (c % 64)>>) \o as_bytes(Tail(s))

is_ascii(s) == \A i \in 1..Len(as_bytes(s)) : as_bytes(s)[i] < 128

(***************************************************************************)
(* Word::new.  The result is a Word, or the panic that ended the call.     *)
(***************************************************************************)
Panic(msg) == [tag |-> "panic", msg |-> msg, characters |-> <<>>, all_chars |-> {}]

RECURSIVE fold_or(_, _)
fold_or(chars, p) ==
    IF chars = <<>> THEN p ELSE fold_or(Tail(chars), p \cup Head(chars))

Word_new(N, word) ==
    LET bytes == as_bytes(word)
    IN  IF ~is_ascii(word) THEN Panic("Word is not ASCII")
        ELSE IF Len(bytes) # N THEN Panic("Incorrect word length")
        ELSE IF \E i \in 1..N : bytes[i] < ASCII_ALPH_OFFSET
                                \/ bytes[i] > ASCII_ALPH_OFFSET + 26
             THEN Panic("Invalid character")
        ELSE LET chars == [i \in 1..N |-> Shl1(bytes[i] - ASCII_ALPH_OFFSET)]
             IN  [tag |-> "Word", msg |-> "", characters |-> chars,
                  all_chars |-> fold_or(chars, {})]

(***************************************************************************)
(* Display for Word: per character, shift right until the value is 1,      *)
(* counting up from 'a'.  A zero character panics.                         *)
(***************************************************************************)
RECURSIVE fmt_char(_, _)
fmt_char(x, cu) == IF x = {0} THEN cu ELSE fmt_char(Shr1(x), cu + 1)

\* Variant of Display_fmt that starts counting one letter too far.
Display_fmt_from_b(word) ==
    IF \E i \in 1..Len(word.characters) : word.characters[i] = {}
    THEN [tag |-> "panic", string |-> <<>>]
    ELSE [tag |-> "String",
          string |-> [i \in 1..Len(word.characters) |->
                        fmt_char(word.characters[i], ASCII_ALPH_OFFSET + 1)]]

Display_fmt(word) ==
    IF \E i \in 1..Len(word.characters) : word.characters[i] = {}
    THEN [tag |-> "panic", string |-> <<>>]
    ELSE [tag |-> "String",
          string |-> [i \in 1..Len(word.characters) |->
                        fmt_char(word.characters[i], ASCII_ALPH_OFFSET)]]

(***************************************************************************)
(* WordMask.                                                               *)
(***************************************************************************)
WordMask_new(N) ==
    [char_mask |-> [i \in 1..N |-> ALL_ALLOWED],
     positive_mask |-> {},
     negative_mask |-> {}]

contains(chars, c) == \E j \in 1..Len(chars) : chars[j] = c

\* Variants of apply_guess_at with one branch changed, as a slip in the code
\* would change it: the exact branch without the lock of
\* char_mask[i]; the present branch assigning !guess instead of and-ing it in;
\* the absent branch assigning negative_mask instead of or-ing into it.
apply_guess_at_unlocked(self, guess_chars, actual_chars, i) ==
    IF guess_chars[i] = actual_chars[i]
    THEN [self EXCEPT !.positive_mask = @ \cup actual_chars[i]]
    ELSE IF contains(actual_chars, guess_chars[i])
    THEN [self EXCEPT !.char_mask[i] = @ \cap Not(guess_chars[i]),
                      !.positive_mask = @ \cup guess_chars[i]]
    ELSE [self EXCEPT !.negative_mask = @ \cup guess_chars[i]]

apply_guess_at_reset(self, guess_chars, actual_chars, i) ==
    IF guess_chars[i] = actual_chars[i]
    THEN [self EXCEPT !.char_mask[i] = actual_chars[i],
                      !.positive_mask = @ \cup actual_chars[i]]
    ELSE IF contains(actual_chars, guess_chars[i])
    THEN [self EXCEPT !.char_mask[i] = Not(guess_chars[i]),
                      !.positive_mask = @ \cup guess_chars[i]]
    ELSE [self EXCEPT !.negative_mask = @ \cup guess_chars[i]]

apply_guess_at_overwrite(self, guess_chars, actual_chars, i) ==
    IF guess_chars[i] = actual_chars[i]
    THEN [self EXCEPT !.char_mask[i] = actual_chars[i],
                      !.positive_mask = @ \cup actual_chars[i]]
    ELSE IF contains(actual_chars, guess_chars[i])
    THEN [self EXCEPT !.char_mask[i] = @ \cap Not(guess_chars[i]),
                      !.positive_mask = @ \cup guess_chars[i]]
    ELSE [self EXCEPT !.negative_mask = guess_chars[i]]

\* One iteration of apply_guess's loop, at position i.
apply_guess_at(self, guess_chars, actual_chars, i) ==
    IF guess_chars[i] = actual_chars[i]
    THEN [self EXCEPT !.char_mask[i] = actual_chars[i],
                      !.positive_mask = @ \cup actual_chars[i]]
    ELSE IF contains(actual_chars, guess_chars[i])
    THEN [self EXCEPT !.char_mask[i] = @ \cap Not(guess_chars[i]),
                      !.positive_mask = @ \cup guess_chars[i]]
    ELSE [self EXCEPT !.negative_mask = @ \cup guess_chars[i]]

RECURSIVE apply_guess_from(_, _, _, _)
apply_guess_from(self, guess_chars, actual_chars, i) ==
    IF i > Len(guess_chars) THEN self
    ELSE apply_guess_from(apply_guess_at(self, guess_chars, actual_chars, i),
                          guess_chars, actual_chars, i + 1)

apply_guess(self, guess, actual) ==
    apply_guess_from(self, guess.characters, actual.characters, 1)

\* apply_input: todo!() is its first statement, so every call panics there
\* and the statements after it never run; self is left as it was.
apply_input(self, input) ==
    [returned |-> "panic", self |-> self]

\* Variant of filter_word that accepts on the first position that matches.
filter_word_first(self, word) ==
    IF (word.all_chars \cap self.positive_mask) # self.positive_mask THEN FALSE
    ELSE IF (word.all_chars \cap self.negative_mask) # {} THEN FALSE
    ELSE \E i \in 1..Len(self.char_mask) :
            (self.char_mask[i] \cap word.characters[i]) # {}

filter_word(self, word) ==
    IF (word.all_chars \cap self.positive_mask) # self.positive_mask THEN FALSE
    ELSE IF (word.all_chars \cap self.negative_mask) # {} THEN FALSE
    ELSE \A i \in 1..Len(self.char_mask) :
            (self.char_mask[i] \cap word.characters[i]) # {}

(***************************************************************************)
(* Texts the model feeds the program.                                      *)
(***************************************************************************)
crane == <<99, 114, 97, 110, 101>>          \* "crane"
slate == <<115, 108, 97, 116, 101>>         \* "slate"
trace == <<116, 114, 97, 99, 101>>          \* "trace"
place == <<112, 108, 97, 99, 101>>          \* "place"
track == <<116, 114, 97, 99, 107>>          \* "track"
fuzzy == <<102, 117, 122, 122, 121>>        \* "fuzzy"
react == <<114, 101, 97, 99, 116>>          \* "react"
trac_brace == <<116, 114, 97, 99, 123>>     \* "trac{"

\* Characters of the codec's texts: '`', 'a', 'z', '{', '|' and 'é'.
CodecChars == {96, 97, 122, 123, 124, 233}
Texts == UNION {[1..n -> CodecChars] : n \in 0..MaxTextLen}
Lowercase == 97..122

\* Lines of a vocabulary file: the solver's files are drawn from these.
Lexicon == <<crane, trace, track, trac_brace, fuzzy>>
EndToEnd == <<crane, slate, trace, place>>

RECURSIVE in_order(_)
in_order(S) ==
    IF S = {} THEN <<>>
    ELSE LET k == CHOOSE x \in S : \A y \in S : x <= y
         IN  <<Lexicon[k]>> \o in_order(S \ {k})

\* The files of at most n lines, each a selection of Lexicon in its order.
Files(n) ==
    {in_order(S) : S \in {T \in SUBSET (1..Len(Lexicon)) :
                            T # {} /\ Cardinality(T) <= n}}

\* get_words: one Word::new per line of the file.
get_words(N, lines) == [i \in 1..Len(lines) |-> Word_new(N, lines[i])]

\* The words and the feedback lines the mask is driven with.
MaskTexts == {crane, trace, track, fuzzy, react, trac_brace}
MaskWords == {Word_new(WORD_LENGTH, t) : t \in MaskTexts}

\* The feedback line apply_input reads: each letter of the guess, followed by
\* '!' when it is in its place, by '?' when it is elsewhere in the word, by
\* nothing when it is not in the word.
RECURSIVE annotation_from(_, _, _)
annotation_from(g, a, i) ==
    IF i > Len(g) THEN <<>>
    ELSE <<g[i]>>
         \o (IF g[i] = a[i] THEN <<33>>
             ELSE IF \E j \in 1..Len(a) : a[j] = g[i] THEN <<63>>
             ELSE <<>>)
         \o annotation_from(g, a, i + 1)

annotation(g, a) == annotation_from(g, a, 1)

Inputs ==
    {<<99, 114, 52, 110, 101>>,                      \* "cr4ne"
     <<99, 114, 233, 110, 101>>,                     \* "crène"
     <<99, 63, 114, 33, 97, 33, 110, 101, 33>>,      \* "c?r!a!ne!"
     fuzzy}
    \cup {annotation(g, a) : g \in MaskTexts, a \in MaskTexts}

(***************************************************************************)
(* main: scoring one guess, pruning, a fresh pass.                         *)
(***************************************************************************)
count_matching(filter, answers) ==
    Cardinality({j \in 1..Len(answers) : filter_word(filter, answers[j])})

RECURSIVE score_from(_, _, _, _)
score_from(guess, mask, answers, k) ==
    IF k > Len(answers) THEN 0
    ELSE LET \* filter: the clone of the mask with apply_guess(guess, answer) applied
             counted == {count_matching(filter, answers) :
                            filter \in {apply_guess(mask, guess, answers[k])}}
         IN  (CHOOSE n \in counted : TRUE) + score_from(guess, mask, answers, k + 1)

\* total_remaining of one task, lines 265-271.
score(guess, mask, answers) == score_from(guess, mask, answers, 1)

remove(list, k) == [j \in 1..(Len(list) - 1) |-> IF j < k THEN list[j] ELSE list[j + 1]]

\* Variant of the remove loop that moves on after a removal without looking at
\* the element that took the removed one's place.
RECURSIVE prune_from_skipping(_, _, _, _, _)
prune_from_skipping(mask, list, i, removed, n) ==
    IF i >= Len(list) THEN list
    ELSE IF ~filter_word(mask, list[i + 1])
         THEN prune_from_skipping(mask, remove(list, i + 1), i + 1, removed + 1, n)
         ELSE prune_from_skipping(mask, list, i + 1, removed, n)

\* The in-place remove loop: i runs over the length the list had at the start,
\* the element looked at is the one at i - removed (0-based).
RECURSIVE prune_from(_, _, _, _, _)
prune_from(mask, list, i, removed, n) ==
    IF i >= n THEN list
    ELSE IF ~filter_word(mask, list[(i - removed) + 1])
         THEN prune_from(mask, remove(list, (i - removed) + 1), i + 1, removed + 1, n)
         ELSE prune_from(mask, list, i + 1, removed, n)

prune(mask, list) == prune_from(mask, list, 0, 0, Len(list))

Workers == 1..Len(valid_guesses)
PassComplete == \A w \in Workers : pc[w] = "done"
next_turn(t) == IF t < MaxTurns THEN t + 1 ELSE t

(***************************************************************************)
(* Values of the variables a specification does not use.                   *)
(***************************************************************************)
NoWord == Panic("")
NoCall == [op |-> "none", guess |-> NoWord, actual |-> NoWord,
           input |-> <<>>, returned |-> "none"]
CodecIdle ==
    text = <<>> /\ encoded = NoWord /\ decoded = [tag |-> "none", string |-> <<>>]
    /\ stage = "idle"
CallsIdle ==
    before = WordMask_new(WORD_LENGTH) /\ last_call = NoCall /\ calls = 0
SolverIdle ==
    /\ original_valid_answers = <<>> /\ valid_guesses = <<>>
    /\ actual_answer = NoWord /\ valid_answers = <<>>
    /\ turns = 0 /\ phase = "idle"
    /\ best_total_remaining = USIZE_MAX
    /\ best_guess = NoWord /\ second_best_guess = NoWord
    /\ best_guess_lock = 0 /\ second_best_guess_lock = 0
    /\ pc = <<>> /\ total_remaining = <<>> /\ written = <<>>

(***************************************************************************)
(* Word::new and Display, one text at a time.                              *)
(***************************************************************************)
CodecInit ==
    /\ text \in Texts
    /\ encoded = NoWord /\ decoded = [tag |-> "none", string |-> <<>>]
    /\ stage = "text"
    /\ CallsIdle /\ SolverIdle /\ current_mask = WordMask_new(WORD_LENGTH)

Encode ==
    /\ stage = "text"
    /\ encoded' = Word_new(WORD_LENGTH, text)
    /\ stage' = "encoded"
    /\ UNCHANGED <<text, decoded, callVars, vocabVars, attemptVars,
                   current_mask, passVars>>

Decode ==
    /\ stage = "encoded"
    /\ encoded.tag = "Word"
    /\ decoded' = Display_fmt(encoded)
    /\ stage' = "decoded"
    /\ UNCHANGED <<text, encoded, callVars, vocabVars, attemptVars,
                   current_mask, passVars>>

CodecNext == Encode \/ Decode
CodecSpec == CodecInit /\ [][CodecNext]_vars

(***************************************************************************)
(* A WordMask under a sequence of apply_guess / apply_input calls.         *)
(***************************************************************************)
MaskInit ==
    /\ current_mask = WordMask_new(WORD_LENGTH)
    /\ CallsIdle /\ CodecIdle /\ SolverIdle

CallApplyGuess ==
    /\ calls < MaxCalls
    /\ last_call.returned # "panic"
    /\ \E guess \in MaskWords, actual \in MaskWords :
        /\ before' = current_mask
        /\ current_mask' = apply_guess(current_mask, guess, actual)
        /\ last_call' = [op |-> "apply_guess", guess |-> guess, actual |-> actual,
                         input |-> <<>>, returned |-> "unit"]
    /\ calls' = calls + 1
    /\ UNCHANGED <<codecVars, vocabVars, attemptVars, passVars>>

CallApplyInput ==
    /\ calls < MaxCalls
    /\ last_call.returned # "panic"
    /\ \E input \in Inputs :
        LET r == apply_input(current_mask, input)
        IN  /\ before' = current_mask
            /\ current_mask' = r.self
            /\ last_call' = [op |-> "apply_input", guess |-> NoWord,
                             actual |-> NoWord, input |-> input,
                             returned |-> r.returned]
    /\ calls' = calls + 1
    /\ UNCHANGED <<codecVars, vocabVars, attemptVars, passVars>>

MaskNext == CallApplyGuess \/ CallApplyInput
MaskSpec == MaskInit /\ [][MaskNext]_vars

(***************************************************************************)
(* main: one self-play attempt.  The state after line 257 of a turn: the   *)
(* slots are fresh and no task of the pass has run.                        *)
(***************************************************************************)
FreshPass(answers, guesses) ==
    /\ best_total_remaining' = USIZE_MAX
    /\ best_guess' = answers[1]
    /\ second_best_guess' = answers[1]
    /\ best_guess_lock' = 0
    /\ second_best_guess_lock' = 0
    /\ pc' = [w \in 1..Len(guesses) |-> "start"]
    /\ total_remaining' = [w \in 1..Len(guesses) |-> 0]
    /\ written' = <<>>

AttemptInit(answer_lines, guess_lines, i) ==
    /\ original_valid_answers = get_words(WORD_LENGTH, answer_lines)
    /\ valid_guesses = get_words(WORD_LENGTH, guess_lines)
    /\ actual_answer = original_valid_answers[i]
    /\ valid_answers = original_valid_answers
    /\ current_mask = WordMask_new(WORD_LENGTH)
    /\ turns = 1
    /\ phase = "AwaitingGuess"
    /\ best_total_remaining = USIZE_MAX
    /\ best_guess = valid_answers[1]
    /\ second_best_guess = valid_answers[1]
    /\ best_guess_lock = 0
    /\ second_best_guess_lock = 0
    /\ pc = [w \in 1..Len(guess_lines) |-> "start"]
    /\ total_remaining = [w \in 1..Len(guess_lines) |-> 0]
    /\ written = <<>>
    /\ CodecIdle /\ CallsIdle

Init ==
    \E answer_lines \in Files(MaxAnswers), guess_lines \in Files(MaxGuesses) :
        \E i \in 1..Len(answer_lines) :
            AttemptInit(answer_lines, guess_lines, i)

EndToEndInit == AttemptInit(EndToEnd, EndToEnd, 3)

\* Variant of PreCheck in which the task applies its hypothetical feedback to
\* the live mask instead of a clone.
PreCheck_in_place(w) ==
    /\ phase = "AwaitingGuess"
    /\ pc[w] = "start"
    /\ \E total \in {score(valid_guesses[w], current_mask, valid_answers)} :
           /\ total_remaining' = [total_remaining EXCEPT ![w] = total]
           /\ pc' = [pc EXCEPT ![w] =
                        IF total = 0 THEN "done"
                        ELSE IF total < best_total_remaining THEN "lock_best"
                        ELSE "done"]
    /\ current_mask' = apply_guess(current_mask, valid_guesses[w],
                                   valid_answers[Len(valid_answers)])
    /\ UNCHANGED <<codecVars, callVars, vocabVars, attemptVars,
                   best_total_remaining, best_guess, second_best_guess,
                   best_guess_lock, second_best_guess_lock, written>>

\* Lines 265-277: the task's own total, the zero check, and the unlocked load
\* of best_total_remaining it is compared with.
PreCheck(w) ==
    /\ phase = "AwaitingGuess"
    /\ pc[w] = "start"
    /\ \E total \in {score(valid_guesses[w], current_mask, valid_answers)} :
           /\ total_remaining' = [total_remaining EXCEPT ![w] = total]
           /\ pc' = [pc EXCEPT ![w] =
                        IF total = 0 THEN "done"
                        ELSE IF total < best_total_remaining THEN "lock_best"
                        ELSE "done"]
    /\ UNCHANGED <<codecVars, callVars, vocabVars, attemptVars, current_mask,
                   best_total_remaining, best_guess, second_best_guess,
                   best_guess_lock, second_best_guess_lock, written>>

\* Line 278: best_guess.lock().
LockBest(w) ==
    /\ pc[w] = "lock_best"
    /\ best_guess_lock = 0
    /\ best_guess_lock' = w
    /\ pc' = [pc EXCEPT ![w] = "lock_second"]
    /\ UNCHANGED <<codecVars, callVars, vocabVars, attemptVars, current_mask,
                   best_total_remaining, best_guess, second_best_guess,
                   second_best_guess_lock, total_remaining, written>>

\* Line 279: second_best_guess.lock().
LockSecond(w) ==
    /\ pc[w] = "lock_second"
    /\ second_best_guess_lock = 0
    /\ second_best_guess_lock' = w
    /\ pc' = [pc EXCEPT ![w] = "write_second"]
    /\ UNCHANGED <<codecVars, callVars, vocabVars, attemptVars, current_mask,
                   best_total_remaining, best_guess, second_best_guess,
                   best_guess_lock, total_remaining, written>>

\* Variant of WriteSecond that stores the task's own guess.
WriteSecond_own(w) ==
    /\ pc[w] = "write_second"
    /\ second_best_guess' = valid_guesses[w]
    /\ second_best_guess_lock' = 0
    /\ pc' = [pc EXCEPT ![w] = "write_best"]
    /\ UNCHANGED <<codecVars, callVars, vocabVars, attemptVars, current_mask,
                   best_total_remaining, best_guess, best_guess_lock,
                   total_remaining, written>>

\* Line 279: the assignment; the temporary guard is dropped with the statement.
WriteSecond(w) ==
    /\ pc[w] = "write_second"
    /\ second_best_guess' = best_guess
    /\ second_best_guess_lock' = 0
    /\ pc' = [pc EXCEPT ![w] = "write_best"]
    /\ UNCHANGED <<codecVars, callVars, vocabVars, attemptVars, current_mask,
                   best_total_remaining, best_guess, best_guess_lock,
                   total_remaining, written>>

\* Line 280.
WriteBest(w) ==
    /\ pc[w] = "write_best"
    /\ best_guess' = valid_guesses[w]
    /\ written' = Append(written, w)
    /\ pc' = [pc EXCEPT ![w] = "store"]
    /\ UNCHANGED <<codecVars, callVars, vocabVars, attemptVars, current_mask,
                   best_total_remaining, second_best_guess, best_guess_lock,
                   second_best_guess_lock, total_remaining>>

\* Variant of StoreBest that keeps the lower of the stored and the own score.
StoreBest_min(w) ==
    /\ pc[w] = "store"
    /\ best_total_remaining' =
          IF total_remaining[w] < best_total_remaining
          THEN total_remaining[w] ELSE best_total_remaining
    /\ pc' = [pc EXCEPT ![w] = "unlock"]
    /\ UNCHANGED <<codecVars, callVars, vocabVars, attemptVars, current_mask,
                   best_guess, second_best_guess, best_guess_lock,
                   second_best_guess_lock, total_remaining, written>>

\* Line 281.
StoreBest(w) ==
    /\ pc[w] = "store"
    /\ best_total_remaining' = total_remaining[w]
    /\ pc' = [pc EXCEPT ![w] = "unlock"]
    /\ UNCHANGED <<codecVars, callVars, vocabVars, attemptVars, current_mask,
                   best_guess, second_best_guess, best_guess_lock,
                   second_best_guess_lock, total_remaining, written>>

\* Variant of UnlockBest that ends the task with the lock still held.
UnlockBest_leak(w) ==
    /\ pc[w] = "unlock"
    /\ pc' = [pc EXCEPT ![w] = "done"]
    /\ UNCHANGED <<codecVars, callVars, vocabVars, attemptVars, current_mask,
                   best_total_remaining, best_guess, second_best_guess,
                   best_guess_lock, second_best_guess_lock, total_remaining,
                   written>>

\* Line 282: the guard best goes out of scope.
UnlockBest(w) ==
    /\ pc[w] = "unlock"
    /\ best_guess_lock' = 0
    /\ pc' = [pc EXCEPT ![w] = "done"]
    /\ UNCHANGED <<codecVars, callVars, vocabVars, attemptVars, current_mask,
                   best_total_remaining, best_guess, second_best_guess,
                   second_best_guess_lock, total_remaining, written>>

\* Lines 303-349 once every task has returned, and, when the loop goes round,
\* lines 253-257 of the next turn (valid_answers[0] panics on an empty list).
EndTurn ==
    /\ phase = "AwaitingGuess"
    /\ PassComplete
    /\ IF best_guess = actual_answer
       THEN /\ phase' = "Solved"
            /\ UNCHANGED <<valid_answers, turns, current_mask, passVars>>
       ELSE \E mask \in {apply_guess(current_mask, best_guess, actual_answer)} :
            \E left \in {prune(mask, valid_answers)} :
                /\ current_mask' = mask
                /\ valid_answers' = left
                /\ IF Len(left) = 1
                   THEN IF left[1] # actual_answer
                        THEN /\ phase' = "Exhausted"
                             /\ UNCHANGED <<turns, passVars>>
                        ELSE /\ phase' = "Solved"
                             /\ turns' = next_turn(turns)
                             /\ UNCHANGED passVars
                   ELSE /\ turns' = next_turn(turns)
                        /\ IF Len(left) = 0
                           THEN /\ phase' = "Aborted"
                                /\ UNCHANGED passVars
                           ELSE /\ phase' = "AwaitingGuess"
                                /\ FreshPass(left, valid_guesses)
    /\ UNCHANGED <<codecVars, callVars, vocabVars>>

Next ==
    \/ \E w \in Workers : PreCheck(w)
    \/ \E w \in Workers : LockBest(w)
    \/ \E w \in Workers : LockSecond(w)
    \/ \E w \in Workers : WriteSecond(w)
    \/ \E w \in Workers : WriteBest(w)
    \/ \E w \in Workers : StoreBest(w)
    \/ \E w \in Workers : UnlockBest(w)
    \/ EndTurn

Spec == Init /\ [][Next]_vars
EndToEndSpec == EndToEndInit /\ [][Next]_vars

\* The pool keeps running the tasks of a pass while any can take a step, and
\* main continues after the join: the program does not stop while a step of
\* it is possible.  (A task never waits for another pass, so this is all that
\* fair scheduling of the threads adds.)
Fairness == WF_vars(Next)
FairSpec == Spec /\ Fairness
FairEndToEndSpec == EndToEndSpec /\ Fairness

(***************************************************************************)
(* Properties.                                                             *)
(***************************************************************************)
IsLowercaseWord(word) == word.tag = "Word" /\ word.all_chars \subseteq ALL_ALLOWED
LowercaseVocabulary ==
    /\ \A k \in 1..Len(original_valid_answers) : IsLowercaseWord(original_valid_answers[k])
    /\ \A k \in 1..Len(valid_guesses) : IsLowercaseWord(valid_guesses[k])
GuessesContainAnswers ==
    \A k \in 1..Len(original_valid_answers) :
        \E w \in 1..Len(valid_guesses) : valid_guesses[w] = original_valid_answers[k]
Terminal == phase \in {"Solved", "Exhausted", "Aborted"}

\* C1: once the pass is complete the guess in the best slot has the minimum
\* score among all allowed guesses, whatever the interleaving (stated for
\* vocabularies of lowercase words, where no task takes the zero branch).
C1_BestIsMinimum ==
    (phase = "AwaitingGuess" /\ PassComplete /\ LowercaseVocabulary)
    => \A w \in Workers :
          score(best_guess, current_mask, valid_answers)
            <= score(valid_guesses[w], current_mask, valid_answers)

\* C2: with both vocabularies {crane, slate, trace, place} and hidden answer
\* trace, every run reaches Solved with at most 3 turns counted and never
\* enters Exhausted.
C2_EndToEndSolved ==
    /\ [](phase # "Exhausted" /\ phase # "Aborted" /\ turns <= 3)
    /\ <>(phase = "Solved")

C2_Witness ==
    /\ phase = "Solved" /\ turns = 2
    /\ actual_answer = Word_new(WORD_LENGTH, trace)
    /\ best_guess # actual_answer
    /\ valid_answers = <<actual_answer>>

\* C3: self-play never enters Exhausted: whenever exactly one candidate is
\* left it is the hidden answer.
C3_NeverExhausted ==
    /\ phase # "Exhausted"
    /\ Len(valid_answers) = 1 => valid_answers[1] = actual_answer

\* C4: when the guess vocabulary contains the answer vocabulary, every attempt
\* reaches a terminal state under every interleaving (stated for vocabularies
\* of lowercase words; a panic counts as the end of the attempt).
C4_AttemptTerminates ==
    (GuessesContainAnswers /\ LowercaseVocabulary) => <>Terminal

Tightened(old, new) ==
    /\ old.positive_mask \subseteq new.positive_mask
    /\ old.negative_mask \subseteq new.negative_mask
    /\ \A i \in 1..Len(old.char_mask) : new.char_mask[i] \subseteq old.char_mask[i]

\* At every position where the guess has the actual word's letter, that letter
\* is still allowed by the mask.
ExactLettersAllowed(mask, guess, actual) ==
    \A i \in 1..Len(mask.char_mask) :
        guess.characters[i] = actual.characters[i]
            => actual.characters[i] \subseteq mask.char_mask[i]

CallWithExactLettersAllowed ==
    /\ last_call.op = "apply_guess"
    /\ ExactLettersAllowed(before, last_call.guess, last_call.actual)

\* The last call was handed lowercase words only, on a mask that allows
\* nothing but lowercase letters.
LowercaseCall ==
    /\ last_call.op = "apply_guess"
        => IsLowercaseWord(last_call.guess) /\ IsLowercaseWord(last_call.actual)
    /\ \A i \in 1..Len(before.char_mask) : before.char_mask[i] \subseteq ALL_ALLOWED

\* C5 as claimed: after every apply_guess / apply_input call, from every mask
\* and for any guess and actual, positive_mask and negative_mask contain
\* their values before the call and every char_mask[i] is within its value
\* before the call (stated for the calls on lowercase words).
C5_MasksOnlyTighten ==
    (last_call.op # "none" /\ LowercaseCall) => Tightened(before, current_mask)

\* C5 as amended: the same, for the apply_guess calls in which every letter the
\* guess has in the actual word's place is still allowed by char_mask there
\* before the call, and for every apply_input call.
C5_TightenWhenExactAllowed ==
    (CallWithExactLettersAllowed \/ last_call.op = "apply_input")
        => Tightened(before, current_mask)

C5_Witness ==
    /\ calls >= 2
    /\ CallWithExactLettersAllowed
    /\ \E i \in 1..WORD_LENGTH :
          /\ last_call.guess.characters[i] = last_call.actual.characters[i]
          /\ current_mask.char_mask[i] # before.char_mask[i]
    /\ before.negative_mask # current_mask.negative_mask
    /\ before.positive_mask # current_mask.positive_mask

\* C6 as claimed: a word filter_word rejects stays rejected after every later
\* apply_guess / apply_input call (stated for the calls on lowercase words).
C6_ExcludedStaysExcluded ==
    (last_call.op # "none" /\ LowercaseCall)
        => \A w \in MaskWords :
              ~filter_word(before, w) => ~filter_word(current_mask, w)

\* C6 as amended: a word filter_word rejects stays rejected after every
\* apply_input call and after every apply_guess call in which every letter
\* the guess has in the actual word's place is still allowed by char_mask
\* there before the call.
C6_ExcludedStaysWhenExactAllowed ==
    (CallWithExactLettersAllowed \/ last_call.op = "apply_input")
        => \A w \in MaskWords :
              ~filter_word(before, w) => ~filter_word(current_mask, w)

C6_Witness ==
    /\ calls >= 2
    /\ CallWithExactLettersAllowed
    /\ \E w \in MaskWords : ~filter_word(before, w) /\ ~filter_word(current_mask, w)
    /\ \E w \in MaskWords : filter_word(before, w) /\ ~filter_word(current_mask, w)
    /\ \E w \in MaskWords : filter_word(current_mask, w)

\* C7: after apply_guess(a, a), on any prior mask, the mask accepts a word only
\* if it has a's letter at every position.
C7_SelfGuessAcceptsOnlyItself ==
    (last_call.op = "apply_guess" /\ last_call.guess = last_call.actual)
        => \A w \in MaskWords :
              filter_word(current_mask, w)
                  => w.characters = last_call.actual.characters

C7_Witness ==
    /\ calls >= 2
    /\ last_call.op = "apply_guess" /\ last_call.guess = last_call.actual
    /\ before # WordMask_new(WORD_LENGTH)
    /\ filter_word(current_mask, last_call.actual)
    /\ \E w \in MaskWords : w # last_call.actual /\ filter_word(before, w)

\* A feedback line is malformed when it is not ASCII or holds a character that
\* is neither a lowercase letter nor a marker ('!' or '?').
Malformed(input) ==
    \/ ~is_ascii(input)
    \/ \E i \in 1..Len(input) : input[i] \notin (Lowercase \cup {33, 63})

\* C8: on a malformed feedback line apply_input returns false and leaves
\* char_mask, positive_mask and negative_mask as they were.
C8_MalformedInputRejected ==
    (last_call.op = "apply_input" /\ Malformed(last_call.input))
        => (last_call.returned = "false" /\ current_mask = before)

WellFormedText(s) ==
    /\ is_ascii(s)
    /\ Len(s) = WORD_LENGTH
    /\ \A i \in 1..Len(s) : s[i] \in Lowercase

\* C9: Word::new fails for every text that is not ASCII, not exactly N
\* characters long or not all lowercase letters, and every Word it produces
\* has exactly one bit per position, one of the 26 letter bits.
C9_EncodeValidates ==
    stage # "text"
        => /\ (encoded.tag = "Word" <=> WellFormedText(text))
           /\ encoded.tag = "Word"
                => \A i \in 1..Len(encoded.characters) :
                      /\ Cardinality(encoded.characters[i]) = 1
                      /\ encoded.characters[i] \subseteq ALL_ALLOWED

\* C10: for every N-letter lowercase text, Display of Word::new of the text is
\* the text, and Display does not panic.
C10_RoundTrip ==
    WellFormedText(text)
        => /\ stage # "text" => encoded.tag = "Word"
           /\ stage = "decoded" => (decoded.tag = "String" /\ decoded.string = text)

C10_Witness ==
    /\ stage = "decoded"
    /\ WellFormedText(text)
    /\ \E i, j \in 1..Len(text) : text[i] = 97 /\ text[j] = 122
    /\ decoded.string = text

\* C11: for every starting mask, guess g and answer a, apply_input on the
\* annotation of g against a returns true and leaves char_mask, positive_mask
\* and negative_mask equal to those apply_guess(g, a) produces from the same
\* starting mask (stated for lowercase g and a).
C11_InputEqualsOracle ==
    \A g \in MaskTexts, a \in MaskTexts :
        (/\ last_call.op = "apply_input"
         /\ last_call.input = annotation(g, a)
         /\ \A i \in 1..Len(g) : g[i] \in Lowercase /\ a[i] \in Lowercase)
            => /\ last_call.returned = "true"
               /\ current_mask = apply_guess(before, Word_new(WORD_LENGTH, g),
                                             Word_new(WORD_LENGTH, a))

\* The tasks whose total is the lowest of the pass.
Tied == {w \in Workers : \A v \in Workers : total_remaining[w] <= total_remaining[v]}

\* C12: a task whose total equals the stored best score never overwrites the
\* best slot, and when two or more guesses tie for the lowest score the slot
\* holds, once the pass is complete, the tied guess that was written first
\* (stated for vocabularies of lowercase words).
C12_FirstWriteWins ==
    (phase = "AwaitingGuess" /\ LowercaseVocabulary)
    => /\ \A w \in Workers :
            ~(pc[w] = "write_best" /\ total_remaining[w] = best_total_remaining)
       /\ (PassComplete /\ Cardinality(Tied) >= 2)
            => \E k \in 1..Len(written) :
                  /\ written[k] \in Tied
                  /\ \A j \in 1..(k - 1) : written[j] \notin Tied
                  /\ best_guess = valid_guesses[written[k]]

\* The words of list that filter_word accepts under mask, in list's order.
kept(mask, list) == SelectSeq(list, LAMBDA word : filter_word(mask, word))

\* The step of main that applies the feedback and prunes.
PruneStep ==
    phase = "AwaitingGuess" /\ PassComplete /\ best_guess # actual_answer

\* C13: the prune after a mask update leaves exactly the words of the previous
\* valid_answers that filter_word accepts under the updated mask, in their
\* order, and no other step changes valid_answers; so valid_answers never
\* gains a word.
C13_PruneKeepsMatching ==
    [][IF PruneStep
       THEN valid_answers' = kept(current_mask', valid_answers)
       ELSE valid_answers' = valid_answers]_vars

\* Two neighbours were removed in one prune and a later candidate was kept.
C13_Witness ==
    /\ phase = "Solved" /\ turns = 2
    /\ Len(original_valid_answers) = 3
    /\ valid_answers = <<original_valid_answers[3]>>

\* C14: while a pass is running no step changes the live mask or
\* valid_answers (nor the vocabularies, the hidden answer, the turn count or
\* the phase): the tasks change the two slots and the best score only.
C14_PassLeavesMaskAndCandidates ==
    [][(phase = "AwaitingGuess" /\ ~PassComplete)
          => /\ current_mask' = current_mask
             /\ valid_answers' = valid_answers
             /\ UNCHANGED <<vocabVars, turns, phase>>]_vars

\* The pass of a second turn has ended after two writes of the best slot.
C14_Witness ==
    /\ phase = "AwaitingGuess" /\ PassComplete
    /\ turns = 2
    /\ Len(written) >= 2
    /\ current_mask # WordMask_new(WORD_LENGTH)
    /\ Len(valid_answers) >= 2

\* The guess the best slot held before its latest write (the slot's initial
\* value, valid_answers[0], when it was written at most once).
PreviousBest ==
    IF Len(written) >= 2 THEN valid_guesses[written[Len(written) - 1]]
    ELSE valid_answers[1]

\* C15: a write of the best slot is made by the holder of the best-slot lock
\* with the runner-up slot already holding the guess the best slot holds just
\* before the write; so, except between the two assignments of one critical
\* section, the runner-up is the previous holder of the best slot, and it is
\* the first candidate when the best slot was written once.
C15_RunnerUpIsPreviousBest ==
    /\ [][\A w \in Workers :
            (pc[w] = "write_best" /\ pc'[w] = "store")
                => /\ best_guess_lock = w
                   /\ second_best_guess = best_guess
                   /\ second_best_guess' = second_best_guess]_vars
    /\ [](phase = "AwaitingGuess"
            => IF \E w \in Workers : pc[w] = "write_best"
               THEN second_best_guess = best_guess
               ELSE second_best_guess = PreviousBest)

\* A pass has ended after three writes of the best slot.
C15_Witness ==
    /\ phase = "AwaitingGuess" /\ PassComplete
    /\ Len(written) = 3
    /\ second_best_guess = valid_guesses[written[2]]
    /\ second_best_guess # best_guess
    /\ second_best_guess # valid_answers[1]

\* The word satisfies the mask, part by part.
Satisfies(word, mask) ==
    /\ mask.positive_mask \subseteq word.all_chars
    /\ mask.negative_mask \cap word.all_chars = {}
    /\ \A i \in 1..Len(mask.char_mask) : word.characters[i] \subseteq mask.char_mask[i]

\* C16: once the live mask has been updated with apply_guess(recommendation,
\* hidden answer), the hidden answer satisfies it (positive_mask holds letters
\* of the answer only, negative_mask none of them, char_mask[i] the answer's
\* letter at i), the hidden answer is still in valid_answers, and
\* valid_answers is not empty (valid_answers[0] is defined at line 256).
C16_AnswerNeverPruned ==
    current_mask # WordMask_new(WORD_LENGTH)
    => /\ Satisfies(actual_answer, current_mask)
       /\ filter_word(current_mask, actual_answer)
       /\ \E k \in 1..Len(valid_answers) : valid_answers[k] = actual_answer
       /\ phase # "Aborted"

\* C17: every task's total is at least the number of candidates, so no task
\* takes the 'total_remaining == 0' return of line 273, and a complete pass
\* over a non-empty guess vocabulary has written the best slot at least once.
C17_ZeroBranchNeverTaken ==
    phase = "AwaitingGuess"
    => /\ \A w \in Workers :
            pc[w] # "start" => total_remaining[w] >= Len(valid_answers)
       /\ (PassComplete /\ Workers # {}) => written # <<>>

InCriticalSection(w) ==
    pc[w] \in {"lock_second", "write_second", "write_best", "store", "unlock"}

\* C18: the pass never deadlocks.  The runner-up lock is only ever held by the
\* holder of the best-slot lock, a task past line 278 holds the best-slot
\* lock, and from every state of a pass the pass completes (every task
\* reaches its end).
C18_PassCompletes ==
    /\ [](second_best_guess_lock # 0 => second_best_guess_lock = best_guess_lock)
    /\ [](\A w \in Workers : InCriticalSection(w) <=> best_guess_lock = w)
    /\ (phase = "AwaitingGuess") ~> PassComplete

\* Two tasks wait for the best-slot lock while a third holds both locks.
C18_Witness ==
    /\ phase = "AwaitingGuess"
    /\ \E u, v, w \in Workers :
          /\ u # v
          /\ pc[u] = "lock_best" /\ pc[v] = "lock_best"
          /\ pc[w] = "write_second"
          /\ best_guess_lock = w /\ second_best_guess_lock = w

\* C19: whenever no task is inside the critical section, the stored best
\* score is usize::MAX if the best slot was not written in this pass and
\* otherwise the score of the guess the best slot holds; in particular at the
\* end of every pass in which the slot was written.
C19_ScoreMatchesBestGuess ==
    (phase = "AwaitingGuess" /\ best_guess_lock = 0)
    => IF written = <<>>
       THEN best_total_remaining = USIZE_MAX /\ best_guess = valid_answers[1]
       ELSE /\ best_guess = valid_guesses[written[Len(written)]]
            /\ best_total_remaining
                  = score(best_guess, current_mask, valid_answers)

\* A pass has ended with the slot written twice, the second time with a higher
\* score than the first.
C19_Witness ==
    /\ phase = "AwaitingGuess" /\ PassComplete
    /\ Len(written) = 2
    /\ total_remaining[written[1]] < total_remaining[written[2]]
    /\ best_total_remaining = total_remaining[written[2]]

====
